---- MODULE Spec2Model ----
(***************************************************************************)
(* hikari.audit_logs: the deserializers of audit log entries, changes and   *)
(* entry options with the registry of entry info classes, and the          *)
(* backward-paging AuditLogIterator, driven by an injected request         *)
(* function (a stub of the Get Guild Audit Log endpoint).                  *)
(*                                                                         *)
(* Python values are tagged tuples so that None, Ellipsis, str and int     *)
(* values can be compared with one another:                                *)
(*   None = <<"None">>, ... = <<"Ellipsis">>, "12" = <<"str", 12>>,        *)
(*   12 = <<"int", 12>>, "role" = <<"text", "role">>, true = <<"bool",     *)
(*   TRUE>>, a JSON list <<"list", seq>>, a JSON object <<"object", map>>. *)
(* The Snowflake of an entry's id and user_id is the bare number.          *)
(* Mappings (dict, JSON objects) are functions; an absent key is a key     *)
(* that is not in the function's DOMAIN.                                   *)
(***************************************************************************)
EXTENDS Integers, Sequences, FiniteSets, TLC

\* ---------------------------------------------------------------- bounds
\* Largest page the arbitrary stub returns.
MaxPage == 2
\* Fetches the arbitrary stub answers.
MaxFetches == 3
\* Pages in a scripted stub, not counting the final empty one.
MaxScript == 2
\* Largest snowflake in the served audit log.
MaxLog == 4
\* Largest small `limit` the iterator is constructed with.
MaxLimit == 2
\* Fetches answered after the stub's data ran out.
MaxRetry == 2
\* Fetches answered by the stub that returns users/webhooks/integrations.
MaxMapFetches == 2
\* Largest raw number in a change's old_value and new_value.
MaxRaw == 2
\* Applications of the register decorator to an empty registry.
MaxRegistrations == 2

\* ------------------------------------------------------ program constants
\* audit_logs.py:621, the page size cap of one request.
PAGE_SIZE == 100
\* audit_logs.py:137, datetime.timedelta(days=1) in seconds.
SECONDS_PER_DAY == 86400

\* ---------------------------------------------------------- Python values
None == <<"None">>
Ellipsis == <<"Ellipsis">>
Str(n) == <<"str", n>>
Num(n) == <<"int", n>>
Text(s) == <<"text", s>>
Bool(b) == <<"bool", b>>
List(s) == <<"list", s>>
Obj(m) == <<"object", m>>
\* float("inf")
Inf == <<"float", "inf">>
\* datetime.timedelta, normalised to seconds
Timedelta(seconds) == <<"timedelta", seconds>>
\* A Snowflake held in a change or in an entry info.
Snowflake(n) == <<"Snowflake", n>>

\* bases.Snowflake.deserialize: the decimal string of an id to the Snowflake.
SnowflakeDeserialize(s) == s[2]

\* str(snowflake): the Snowflake back to its decimal string.
SnowflakeStr(id) == Str(id)

\* list.reverse()
Reverse(s) == [i \in 1..Len(s) |-> s[Len(s) - i + 1]]

\* sum of a sequence of numbers
RECURSIVE Sum(_)
Sum(s) == IF s = <<>> THEN 0 ELSE Head(s) + Sum(Tail(s))

\* {o.id: o for o in map(T.deserialize, objs)}: a later object with the same id wins.
RECURSIVE DictOf(_)
DictOf(objs) ==
    IF objs = <<>> THEN <<>>
    ELSE LET rest == DictOf(SubSeq(objs, 1, Len(objs) - 1))
             o == objs[Len(objs)]
             e == [id |-> SnowflakeDeserialize(o.id), v |-> o.v]
         IN [k \in DOMAIN rest \cup {e.id} |-> IF k = e.id THEN e ELSE rest[k]]

\* dict.update(other) on a copy of d
DictUpdate(d, other) ==
    [k \in DOMAIN d \cup DOMAIN other |-> IF k \in DOMAIN other THEN other[k] ELSE d[k]]

\* ------------------------------------------------------------------ state
VARIABLES
    _kwargs,        \* self._kwargs: guild_id, user_id, action_type
    _limit,         \* self._limit: None or Num(n), the remaining budget
    _buffer,        \* self._buffer: raw entries not yet yielded
    _front,         \* self._front: None or the str of the last yielded id
    users,          \* self.users: a reference into heap
    webhooks,       \* self.webhooks: a reference into heap
    integrations,   \* self.integrations: a reference into heap
    heap,           \* the dict objects ever created, by reference
    stub,           \* the injected request function and its state
    ctor,           \* the constructor's arguments
    yielded,        \* ids of the entries __anext__ returned, in order
    result,         \* outcome of the latest __anext__ call
    stopped,        \* StopAsyncIteration was raised by an earlier or this call
    nfetch,         \* calls of the request function so far
    lastCall,       \* the latest __anext__ call: what it saw and did
    lastRequest,    \* the latest call of the request function
    pages,          \* sizes of the pages the request function returned, in order
    obedient,       \* no fetch returned more entries than it was asked for
    returned,       \* users/webhooks/integrations payloads returned so far
    captured,       \* references the consumer read from the iterator
    types,          \* register_audit_log_entry_info.types, the function attribute
    registrations,  \* the applications of the register decorator so far, in order
    decoded         \* the latest call of a deserializer: its payload and outcome

vars == <<_kwargs, _limit, _buffer, _front, users, webhooks, integrations, heap,
          stub, ctor, yielded, result, stopped, nfetch, lastCall, lastRequest,
          pages, obedient, returned, captured, types, registrations, decoded>>

\* ------------------------------------------------------------ AuditLogChange
\* class AuditLogChangeKey(str, enum.Enum): the member of each value.
AuditLogChangeKey ==
    [name |-> "NAME", icon_hash |-> "ICON_HASH", splash_hash |-> "SPLASH_HASH",
     owner_id |-> "OWNER_ID", region |-> "REGION", afk_channel_id |-> "AFK_CHANNEL_ID",
     afk_timeout |-> "AFK_TIMEOUT", mfa_level |-> "MFA_LEVEL",
     verification_level |-> "VERIFICATION_LEVEL",
     explicit_content_filter |-> "EXPLICIT_CONTENT_FILTER",
     default_message_notifications |-> "DEFAULT_MESSAGE_NOTIFICATIONS",
     vanity_url_code |-> "VANITY_URL_CODE", prune_delete_days |-> "PRUNE_DELETE_DAYS",
     widget_enabled |-> "WIDGET_ENABLED", widget_channel_id |-> "WIDGET_CHANNEL_ID",
     position |-> "POSITION", topic |-> "TOPIC", bitrate |-> "BITRATE",
     permission_overwrites |-> "PERMISSION_OVERWRITES", nsfw |-> "NSFW",
     application_id |-> "APPLICATION_ID", permissions |-> "PERMISSIONS", color |-> "COLOR",
     hoist |-> "HOIST", mentionable |-> "MENTIONABLE", allow |-> "ALLOW", deny |-> "DENY",
     code |-> "INVITE_CODE", channel_id |-> "CHANNEL_ID", inviter_id |-> "INVITER_ID",
     max_uses |-> "MAX_USES", uses |-> "USES", max_age |-> "MAX_AGE",
     temporary |-> "TEMPORARY", deaf |-> "DEAF", mute |-> "MUTE", nick |-> "NICK",
     avatar_hash |-> "AVATAR_HASH", id |-> "ID", type |-> "TYPE",
     enable_emoticons |-> "ENABLE_EMOTICONS", expire_behavior |-> "EXPIRE_BEHAVIOR",
     expire_grace_period |-> "EXPIRE_GRACE_PERIOD",
     rate_limit_per_user |-> "RATE_LIMIT_PER_USER",
     system_channel_id |-> "SYSTEM_CHANNEL_ID"]
    @@ ("$add" :> "ADD_ROLE_TO_MEMBER") @@ ("$remove" :> "REMOVE_ROLE_FROM_MEMBER")

\* A member of an enum class.
Member(cls, name) == <<cls, name>>

\* class AuditLogEventType(enum.IntEnum): the values of its members.
AuditLogEventType ==
    {1, 10, 11, 12, 13, 14, 15, 20, 21, 22, 23, 24, 25, 26, 27, 28, 30, 31, 32, 40, 41, 42,
     50, 51, 52, 60, 61, 62, 72, 73, 74, 75, 80, 81, 82}

\* AuditLogChangeKey(value) and AuditLogEventType(value): the member that has
\* the value, ValueError when there is none.
EnumCall(cast, value) ==
    CASE cast = "AuditLogChangeKey" ->
           IF value[1] = "text" /\ value[2] \in DOMAIN AuditLogChangeKey
           THEN [ok |-> TRUE, value |-> Member(cast, AuditLogChangeKey[value[2]])]
           ELSE [ok |-> FALSE, error |-> "ValueError"]
      [] cast = "AuditLogEventType" ->
           IF value[1] = "int" /\ value[2] \in AuditLogEventType
           THEN [ok |-> TRUE, value |-> Member(cast, value[2])]
           ELSE [ok |-> FALSE, error |-> "ValueError"]

\* conversions.try_cast(value, cast, default): cast(value), default when it raises.
try_cast(value, cast, default) ==
    LET r == EnumCall(cast, value) IN IF r.ok THEN r.value ELSE default

\* bool(value) of a raw JSON value.
Truthy(value) ==
    CASE value[1] = "None" -> FALSE
      [] value[1] = "int" -> value[2] # 0
      [] value[1] = "bool" -> value[2]
      [] value[1] = "list" -> value[2] # <<>>
      [] value[1] = "object" -> DOMAIN value[2] # {}
      [] OTHER -> TRUE

\* Mutant of MaxUses: zero is taken for "no value", as max_age takes it.
MaxUsesLikeMaxAge(payload) == IF payload[2] > 0 THEN Num(payload[2]) ELSE None

\* `lambda payload: int(payload) if payload > 0 else float("inf")`
MaxUses(payload) == IF payload[2] > 0 THEN Num(payload[2]) ELSE Inf

\* `lambda payload: datetime.timedelta(seconds=payload) if payload > 0 else None`
MaxAge(payload) == IF payload[2] > 0 THEN Timedelta(payload[2]) ELSE None

\* AUDIT_LOG_ENTRY_CONVERTERS: the converter of each key that has one.
AUDIT_LOG_ENTRY_CONVERTERS ==
    [OWNER_ID |-> "Snowflake.deserialize",
     AFK_CHANNEL_ID |-> "Snowflake.deserialize",
     AFK_TIMEOUT |-> "timedelta(seconds=payload)",
     MFA_LEVEL |-> "GuildMFALevel",
     VERIFICATION_LEVEL |-> "GuildVerificationLevel",
     EXPLICIT_CONTENT_FILTER |-> "GuildExplicitContentFilterLevel",
     DEFAULT_MESSAGE_NOTIFICATIONS |-> "GuildMessageNotificationsLevel",
     ADD_ROLE_TO_MEMBER |-> "{role.id: role}",
     REMOVE_ROLE_FROM_MEMBER |-> "{role.id: role}",
     PRUNE_DELETE_DAYS |-> "timedelta(days=int(payload))",
     WIDGET_CHANNEL_ID |-> "Snowflake.deserialize",
     POSITION |-> "int",
     BITRATE |-> "int",
     PERMISSION_OVERWRITES |-> "{overwrite.id: overwrite}",
     APPLICATION_ID |-> "Snowflake.deserialize",
     PERMISSIONS |-> "Permission",
     COLOR |-> "Color",
     ALLOW |-> "Permission",
     DENY |-> "Permission",
     CHANNEL_ID |-> "Snowflake.deserialize",
     INVITER_ID |-> "Snowflake.deserialize",
     MAX_USES |-> "max_uses",
     USES |-> "int",
     MAX_AGE |-> "max_age",
     ID |-> "Snowflake.deserialize",
     TYPE |-> "str",
     ENABLE_EMOTICONS |-> "bool",
     EXPIRE_BEHAVIOR |-> "IntegrationExpireBehaviour",
     EXPIRE_GRACE_PERIOD |-> "timedelta(days=payload)",
     RATE_LIMIT_PER_USER |-> "timedelta(seconds=payload)",
     SYSTEM_CHANNEL_ID |-> "Snowflake.deserialize"]

\* The classes among the converters that are called with the raw value:
\* enums, the permission flags and the colour.
ValueClasses ==
    {"GuildMFALevel", "GuildVerificationLevel", "GuildExplicitContentFilterLevel",
     "GuildMessageNotificationsLevel", "IntegrationExpireBehaviour", "Permission", "Color",
     "PermissionOverwriteType"}

\* value_converter(payload) on a raw value that is not None.
Apply(value_converter, payload) ==
    CASE value_converter = "Snowflake.deserialize" -> Snowflake(SnowflakeDeserialize(payload))
      [] value_converter \in {"timedelta(seconds=payload)"} -> Timedelta(payload[2])
      [] value_converter \in {"timedelta(days=payload)", "timedelta(days=int(payload))"} ->
           Timedelta(SECONDS_PER_DAY * payload[2])
      [] value_converter = "int" -> Num(payload[2])
      [] value_converter = "str" -> IF payload[1] = "int" THEN Str(payload[2]) ELSE payload
      [] value_converter = "bool" -> Bool(Truthy(payload))
      [] value_converter \in {"{role.id: role}", "{overwrite.id: overwrite}"} ->
           <<"dict", DictOf(payload[2])>>
      [] value_converter = "max_uses" -> MaxUses(payload)
      [] value_converter = "max_age" -> MaxAge(payload)
      [] value_converter \in ValueClasses -> <<value_converter, payload[2]>>

\* payload.get(key)
Get(payload, key) == IF key \in DOMAIN payload THEN payload[key] ELSE None

\* Mutant of ConverterGet: a key that has no converter is converted with str.
ConverterGetOrStr(key) ==
    IF key[1] = "AuditLogChangeKey" /\ key[2] \in DOMAIN AUDIT_LOG_ENTRY_CONVERTERS
    THEN AUDIT_LOG_ENTRY_CONVERTERS[key[2]]
    ELSE "str"

\* AUDIT_LOG_ENTRY_CONVERTERS.get(key): "" stands for None.  A raw string that
\* is the value of no member is the key of no converter.
ConverterGet(key) ==
    IF key[1] = "AuditLogChangeKey" /\ key[2] \in DOMAIN AUDIT_LOG_ENTRY_CONVERTERS
    THEN AUDIT_LOG_ENTRY_CONVERTERS[key[2]]
    ELSE ""

\* Mutant of ConvertValue: `if new_value`, which also leaves 0 and [] alone.
ConvertValueIfTruthy(value_converter, value) ==
    IF Truthy(value)
    THEN [value |-> Apply(value_converter, value), calls |-> <<value>>]
    ELSE [value |-> None, calls |-> <<>>]

\* `value_converter(new_value) if new_value is not None else None`, with the
\* arguments the converter was called with.
ConvertValue(value_converter, value) ==
    IF value # None
    THEN [value |-> Apply(value_converter, value), calls |-> <<value>>]
    ELSE [value |-> None, calls |-> <<>>]

\* AuditLogChange.deserialize
AuditLogChangeDeserialize(payload) ==
    IF "key" \notin DOMAIN payload THEN [ok |-> FALSE, error |-> "KeyError"]
    ELSE LET key == try_cast(payload.key, "AuditLogChangeKey", payload.key)
             new_value == Get(payload, "new_value")
             old_value == Get(payload, "old_value")
             value_converter == ConverterGet(key)
         IN IF value_converter # ""
            THEN LET new == ConvertValue(value_converter, new_value)
                     old == ConvertValue(value_converter, old_value)
                 IN [ok |-> TRUE,
                     change |-> [key |-> key, new_value |-> new.value,
                                 old_value |-> old.value],
                     calls |-> new.calls \o old.calls]
            ELSE [ok |-> TRUE,
                  change |-> [key |-> key, new_value |-> new_value, old_value |-> old_value],
                  calls |-> <<>>]

\* ------------------------------------------------------- entry info entities
\* What a dict files a key under: an IntEnum member hashes and compares as its int.
DictKey(t) == IF t[1] = "AuditLogEventType" THEN Num(t[2]) ELSE t

\* getattr(register_audit_log_entry_info, "types", {}): the attribute's dict,
\* an empty one when the attribute is not set.
Getattr(attr) == IF attr.set THEN attr.mapping ELSE <<>>

\* Mutant of register_audit_log_entry_info: additional_types are ignored.
register_first_type_only(attr, type_, additional_types, cls) ==
    LET mapping == Getattr(attr)
        ts == {DictKey(type_)}
    IN [set |-> TRUE,
        mapping |-> [t \in DOMAIN mapping \cup ts |-> IF t \in ts THEN cls ELSE mapping[t]]]

\* register_audit_log_entry_info(type_, *additional_types)(cls) on the
\* function attribute attr: the attribute afterwards.
register_audit_log_entry_info(attr, type_, additional_types, cls) ==
    LET mapping == Getattr(attr)
        ts == {DictKey(t) : t \in {type_} \cup {additional_types[i] : i \in DOMAIN additional_types}}
    IN [set |-> TRUE,
        mapping |-> [t \in DOMAIN mapping \cup ts |-> IF t \in ts THEN cls ELSE mapping[t]]]

\* The decorated classes of the module, in the order of their definitions.
Decorated ==
    <<[type_ |-> Member("AuditLogEventType", 13),
       additional_types |-> <<Member("AuditLogEventType", 14), Member("AuditLogEventType", 15)>>,
       cls |-> "ChannelOverwriteEntryInfo"],
      [type_ |-> Member("AuditLogEventType", 74),
       additional_types |-> <<Member("AuditLogEventType", 75)>>,
       cls |-> "MessagePinEntryInfo"],
      [type_ |-> Member("AuditLogEventType", 21), additional_types |-> <<>>,
       cls |-> "MemberPruneEntryInfo"],
      [type_ |-> Member("AuditLogEventType", 73), additional_types |-> <<>>,
       cls |-> "MessageBulkDeleteEntryInfo"],
      [type_ |-> Member("AuditLogEventType", 72), additional_types |-> <<>>,
       cls |-> "MessageDeleteEntryInfo"],
      [type_ |-> Member("AuditLogEventType", 27), additional_types |-> <<>>,
       cls |-> "MemberDisconnectEntryInfo"],
      [type_ |-> Member("AuditLogEventType", 26), additional_types |-> <<>>,
       cls |-> "MemberMoveEntryInfo"]>>

\* The function attribute after the decorators ds were applied in order.
RECURSIVE Decorate(_, _)
Decorate(attr, ds) ==
    IF ds = <<>> THEN attr
    ELSE Decorate(register_audit_log_entry_info(attr, Head(ds).type_,
                                                Head(ds).additional_types, Head(ds).cls),
                  Tail(ds))

\* An entry info object: its class and its attributes.
EntryInfo(cls, attrs) == <<"entry info", cls, attrs>>

\* The function attribute before the first decorator ran: not set.
NotSet == [set |-> FALSE, mapping |-> <<>>]

\* The marshaller attributes of each decorated class, inherited ones first.
RECURSIVE Attribs(_)
Attribs(cls) ==
    CASE cls = "ChannelOverwriteEntryInfo" ->
           <<[name |-> "id", deserializer |-> "Snowflake.deserialize", required |-> TRUE],
             [name |-> "type", deserializer |-> "PermissionOverwriteType", required |-> TRUE],
             [name |-> "role_name", deserializer |-> "str", required |-> FALSE]>>
      [] cls = "MessagePinEntryInfo" ->
           <<[name |-> "channel_id", deserializer |-> "Snowflake.deserialize", required |-> TRUE],
             [name |-> "message_id", deserializer |-> "Snowflake.deserialize", required |-> TRUE]>>
      [] cls = "MemberPruneEntryInfo" ->
           <<[name |-> "delete_member_days", deserializer |-> "timedelta(days=int(payload))",
              required |-> TRUE],
             [name |-> "members_removed", deserializer |-> "int", required |-> TRUE]>>
      [] cls = "MessageBulkDeleteEntryInfo" ->
           <<[name |-> "count", deserializer |-> "int", required |-> TRUE]>>
      [] cls = "MessageDeleteEntryInfo" ->
           Attribs("MessageBulkDeleteEntryInfo")
           \o <<[name |-> "channel_id", deserializer |-> "Snowflake.deserialize",
                 required |-> TRUE]>>
      [] cls = "MemberDisconnectEntryInfo" ->
           <<[name |-> "count", deserializer |-> "int", required |-> TRUE]>>
      [] cls = "MemberMoveEntryInfo" ->
           Attribs("MemberDisconnectEntryInfo")
           \o <<[name |-> "channel_id", deserializer |-> "Snowflake.deserialize",
                 required |-> TRUE]>>

\* The deserialize the marshaller gives a decorated class: each attribute is
\* its deserializer's value of the raw field, None for an undefined role_name;
\* a payload that lacks a required field is refused.
MarshallerDeserialize(cls, payload) ==
    LET as == Attribs(cls)
    IN IF \E i \in DOMAIN as : as[i].required /\ as[i].name \notin DOMAIN payload
       THEN [ok |-> FALSE, error |-> "AttributeError"]
       ELSE [ok |-> TRUE,
             value |-> EntryInfo(cls,
                                 [n \in {as[i].name : i \in DOMAIN as} |->
                                    LET a == as[CHOOSE i \in DOMAIN as : as[i].name = n]
                                    IN IF n \in DOMAIN payload
                                       THEN Apply(a.deserializer, payload[n])
                                       ELSE None])]

\* The fallback class.
UnrecognisedAuditLogEntryInfo == "UnrecognisedAuditLogEntryInfo"

\* UnrecognisedAuditLogEntryInfo.deserialize: `self.__dict__.update(payload)`.
UnrecognisedDeserialize(payload) ==
    [ok |-> TRUE,
     value |-> EntryInfo(UnrecognisedAuditLogEntryInfo, DictUpdate(<<>>, payload))]

\* option_converter.deserialize(options)
EntryInfoDeserialize(cls, payload) ==
    IF cls = UnrecognisedAuditLogEntryInfo
    THEN UnrecognisedDeserialize(payload)
    ELSE MarshallerDeserialize(cls, payload)

\* Mutant of get_entry_info_entity: the registry is not consulted.
get_entry_info_entity_unregistered(type_) == UnrecognisedAuditLogEntryInfo

\* get_entry_info_entity
get_entry_info_entity(type_) ==
    LET mapping == Getattr(types)
        t == DictKey(type_)
    IN IF t \in DOMAIN mapping THEN mapping[t] ELSE UnrecognisedAuditLogEntryInfo

\* ------------------------------------------------------------ AuditLogEntry
\* The keys AuditLogEntry.deserialize looks up with payload[...].
RequiredKeys == <<"id", "user_id", "action_type">>

\* Mutant of OptionsPresent: `if options := payload.get("options")`.
OptionsTruthy(options) == Truthy(options)

\* `(options := payload.get("options")) is not None`
OptionsPresent(options) == options # None

\* AuditLogEntry.deserialize: payload["action_type"], payload["user_id"] and
\* payload["id"] are plain lookups (KeyError when absent), in this order with
\* the options and the changes decoded in between.
AuditLogEntryDeserialize(payload) ==
    IF "action_type" \notin DOMAIN payload THEN [ok |-> FALSE, error |-> "KeyError"]
    ELSE LET action_type ==
                 try_cast(payload.action_type, "AuditLogEventType", payload.action_type)
             raw_target == Get(payload, "target_id")
             target_id == IF Truthy(raw_target)
                          THEN Snowflake(SnowflakeDeserialize(raw_target))
                          ELSE raw_target
             raw_options == Get(payload, "options")
             options == IF OptionsPresent(raw_options)
                        THEN EntryInfoDeserialize(get_entry_info_entity(action_type),
                                                  raw_options[2])
                        ELSE [ok |-> TRUE, value |-> raw_options]
             raw_changes == IF "changes" \in DOMAIN payload THEN payload.changes[2] ELSE <<>>
             changes == [i \in DOMAIN raw_changes |-> AuditLogChangeDeserialize(raw_changes[i])]
         IN IF ~options.ok THEN [ok |-> FALSE, error |-> options.error]
            ELSE IF \E i \in DOMAIN changes : ~changes[i].ok
            THEN [ok |-> FALSE, error |-> "KeyError"]
            ELSE IF "user_id" \notin DOMAIN payload \/ "id" \notin DOMAIN payload
            THEN [ok |-> FALSE, error |-> "KeyError"]
            ELSE [ok |-> TRUE,
                  entry |-> [target_id |-> target_id,
                             changes |-> [i \in DOMAIN changes |-> changes[i].change],
                             user_id |-> SnowflakeDeserialize(payload.user_id),
                             id |-> SnowflakeDeserialize(payload.id),
                             action_type |-> action_type,
                             options |-> options.value,
                             reason |-> Get(payload, "reason")]]

\* ------------------------------------------------------------ raw payloads
\* A well-formed raw audit log entry with id n.
GoodEntry(n) == [id |-> Str(n), user_id |-> Str(1), action_type |-> Num(1)]

\* A raw audit log entry number n that lacks one of the required keys (which
\* one goes by n, so that each of them is lacking in some entry).
BadEntry(n) ==
    LET e == GoodEntry(n)
    IN [k \in DOMAIN e \ {RequiredKeys[(n % 3) + 1]} |-> e[k]]

\* The id a raw entry carries, 0 when it carries none.
EntryId(e) == IF "id" \in DOMAIN e THEN SnowflakeDeserialize(e.id) ELSE 0

\* s raw entries, newest first, ids top, top-1, ...; entry number bad (if any) is malformed.
Page(top, s, bad) ==
    [i \in 1..s |-> IF i = bad THEN BadEntry(top - i + 1) ELSE GoodEntry(top - i + 1)]


\* The iterator object's fields.
Self ==
    [_kwargs |-> _kwargs, _limit |-> _limit, _buffer |-> _buffer, _front |-> _front,
     users |-> users, webhooks |-> webhooks, integrations |-> integrations]

\* --------------------------------------------------------- AuditLogIterator
\* AuditLogIterator.__init__
__init__(guild_id, before, user_id, action_type, limit) ==
    [_kwargs |-> [guild_id |-> guild_id, user_id |-> user_id, action_type |-> action_type],
     _limit |-> limit,
     _buffer |-> <<>>,
     _front |-> before,
     users |-> 1,
     webhooks |-> 2,
     integrations |-> 3]

\* The three empty dicts __init__ creates.
InitHeap == <<<<>>, <<>>, <<>>>>

\* Mutant of NeedsFill: the budget is not looked at.
NeedsFillIgnoringBudget(self) == self._buffer = <<>>

\* Mutant of NeedsFill: the buffer is not looked at.
NeedsFillIgnoringBuffer(self) == self._limit # Num(0)

\* `not self._buffer and self._limit != 0`
NeedsFill(self) == self._buffer = <<>> /\ self._limit # Num(0)

\* Mutant of PageLimit: a bounded budget is asked for in full.
PageLimitUncapped(limit) == IF limit = None THEN Num(PAGE_SIZE) ELSE limit

\* `limit=100 if self._limit is None or self._limit > 100 else self._limit`
PageLimit(limit) ==
    IF limit = None \/ limit[2] > PAGE_SIZE THEN Num(PAGE_SIZE) ELSE limit

\* Mutant of BeforeArg: the cursor is never passed.
BeforeArgUnset(front) == Ellipsis

\* `before=self._front if self._front is not None else ...`
BeforeArg(front) == IF front # None THEN front ELSE Ellipsis

\* The keyword arguments _fill passes to the request function.
RequestArgs(self) ==
    [guild_id |-> self._kwargs.guild_id,
     user_id |-> self._kwargs.user_id,
     action_type |-> self._kwargs.action_type,
     before |-> BeforeArg(self._front),
     limit |-> PageLimit(self._limit)]

\* Mutant of Decrement: one is taken off the budget for a page.
DecrementByOne(limit, n) == IF limit # None THEN Num(limit[2] - 1) ELSE limit

\* Mutant of Decrement: the budget is left as it was.
DecrementSkipped(limit, n) == limit

\* `self._limit -= len(payload["audit_log_entries"])` when bounded
Decrement(limit, n) == IF limit # None THEN Num(limit[2] - n) ELSE limit

\* Mutant of Extend: the page is not reversed.
ExtendUnreversed(buffer, entries) == buffer \o entries

\* `payload["audit_log_entries"].reverse(); self._buffer.extend(...)`
Extend(buffer, entries) == buffer \o Reverse(entries)

\* Mutant of MergeMapping: the published dict is updated in place.
MergeMappingInPlace(h, ref, payload, key) ==
    IF key \in DOMAIN payload /\ payload[key] # <<>>
    THEN [heap |-> [h EXCEPT ![ref] = DictUpdate(h[ref], DictOf(payload[key]))], ref |-> ref]
    ELSE [heap |-> h, ref |-> ref]

\* `if objs := payload.get(key): ref = copy.copy(ref); ref.update({...})`
\* gives the heap and the reference afterwards.
MergeMapping(h, ref, payload, key) ==
    IF key \in DOMAIN payload /\ payload[key] # <<>>
    THEN [heap |-> Append(h, DictUpdate(h[ref], DictOf(payload[key]))), ref |-> Len(h) + 1]
    ELSE [heap |-> h, ref |-> ref]

\* AuditLogIterator._fill once the request returned payload.
_fill(self, h, payload) ==
    LET u == MergeMapping(h, self.users, payload, "users")
        w == MergeMapping(u.heap, self.webhooks, payload, "webhooks")
        i == MergeMapping(w.heap, self.integrations, payload, "integrations")
    IN [self |-> [self EXCEPT !._limit = Decrement(@, Len(payload.audit_log_entries)),
                              !._buffer = Extend(@, payload.audit_log_entries),
                              !.users = u.ref,
                              !.webhooks = w.ref,
                              !.integrations = i.ref],
        heap |-> i.heap]

\* `self._buffer.pop()`: the last element, removed.
Pop(buffer) == [item |-> buffer[Len(buffer)], rest |-> SubSeq(buffer, 1, Len(buffer) - 1)]

\* Mutant of Front: the cursor is taken from the entry's user id.
FrontOfUser(entry) == SnowflakeStr(entry.user_id)

\* `self._front = str(entry.id)`
Front(entry) == SnowflakeStr(entry.id)

\* Mutant of PopEntry: `except LookupError`, which catches the KeyError too.
PopEntryCatchingLookupError(self, h) ==
    IF self._buffer = <<>>
    THEN [self |-> self, heap |-> h, result |-> <<"StopAsyncIteration">>, popped |-> <<>>]
    ELSE LET p == Pop(self._buffer)
             d == AuditLogEntryDeserialize(p.item)
             popped == [self EXCEPT !._buffer = p.rest]
         IN IF d.ok
            THEN [self |-> [popped EXCEPT !._front = SnowflakeStr(d.entry.id)],
                  heap |-> h,
                  result |-> <<"entry", d.entry.id>>,
                  popped |-> <<p.item>>]
            ELSE [self |-> popped, heap |-> h, result |-> <<"StopAsyncIteration">>,
                  popped |-> <<p.item>>]

\* The try block of __anext__ on the state _fill left.
PopEntry(self, h) ==
    IF self._buffer = <<>>
    THEN [self |-> self, heap |-> h, result |-> <<"StopAsyncIteration">>, popped |-> <<>>]
    ELSE LET p == Pop(self._buffer)
             d == AuditLogEntryDeserialize(p.item)
             popped == [self EXCEPT !._buffer = p.rest]
         IN IF d.ok
            THEN [self |-> [popped EXCEPT !._front = Front(d.entry)],
                  heap |-> h,
                  result |-> <<"entry", d.entry.id>>,
                  popped |-> <<p.item>>]
            ELSE [self |-> popped, heap |-> h, result |-> <<d.error>>, popped |-> <<p.item>>]

\* Mutant of __anext__: an error of the request is taken for an empty page.
AnextSwallowingError(self, h, resp) ==
    IF NeedsFill(self) /\ resp.ok
    THEN LET f == _fill(self, h, resp.payload) IN PopEntry(f.self, f.heap)
    ELSE PopEntry(self, h)

\* AuditLogIterator.__anext__; resp is what the request function answers if called.
__anext__(self, h, resp) ==
    IF NeedsFill(self)
    THEN IF resp.ok
         THEN LET f == _fill(self, h, resp.payload) IN PopEntry(f.self, f.heap)
         ELSE [self |-> self, heap |-> h, result |-> <<"RequestError">>, popped |-> <<>>]
    ELSE PopEntry(self, h)

\* ----------------------------------------------------- the request function
Ok(payload) == [ok |-> TRUE, payload |-> payload]
Raise == [ok |-> FALSE]

\* Ids of the log that a request with cursor `before` may return, newest first.
RECURSIVE Older(_, _)
Older(log, before) ==
    IF log = <<>> THEN <<>>
    ELSE IF before = Ellipsis \/ Head(log) < SnowflakeDeserialize(before)
         THEN log
         ELSE Older(Tail(log), before)

\* The first n elements of s, or all of s.
Take(s, n) == SubSeq(s, 1, IF n < Len(s) THEN n ELSE Len(s))

\* The users, webhooks or integrations lists a response may carry: the raw
\* objects 1, or 1 and 2, as fetch number v returns them (and an empty users list).
SideLists(key, v) ==
    {<<[id |-> Str(1), v |-> v]>>,
     <<[id |-> Str(1), v |-> v], [id |-> Str(2), v |-> v]>>}
    \cup (IF key = "users" THEN {<<>>} ELSE {})

\* The sets of keys that go with audit_log_entries in a response.
SideKeys == SUBSET {"users", "webhooks", "integrations"}

\* What the request function may answer to args.
Responses(s, args, n) ==
    CASE s.kind = "any" ->
           {Ok([audit_log_entries |-> Page(s.top, sb[1], sb[2])]) :
               sb \in {x \in (0..MaxPage) \X (0..MaxPage) : x[2] <= x[1]}} \cup {Raise}
      [] s.kind = "script" ->
           {Ok([audit_log_entries |->
                   Page(s.top, IF s.script = <<>> THEN 0 ELSE Head(s.script), 0)])}
      [] s.kind = "log" ->
           LET ids == Take(Older(s.log, args.before),
                           IF args.limit[2] < s.page THEN args.limit[2] ELSE s.page)
           IN {Ok([audit_log_entries |-> [i \in 1..Len(ids) |-> GoodEntry(ids[i])]])}
      [] s.kind = "maps" ->
           UNION {{Ok([k \in keys \cup {"audit_log_entries"} |->
                         IF k = "audit_log_entries" THEN Page(s.top, 1, 0) ELSE lists[k]]) :
                     lists \in {l \in [keys -> UNION {SideLists(k, n + 1) : k \in keys}] :
                                   \A k \in keys : l[k] \in SideLists(k, n + 1)}} :
                  keys \in SideKeys}

\* The request function's state after answering resp.
Served(s, resp) ==
    IF ~resp.ok THEN s
    ELSE CASE s.kind \in {"any", "maps"} ->
                [s EXCEPT !.top = @ - Len(resp.payload.audit_log_entries)]
           [] s.kind = "script" ->
                [s EXCEPT !.top = @ - Len(resp.payload.audit_log_entries),
                          !.script = IF @ = <<>> THEN @ ELSE Tail(@)]
           [] s.kind = "log" -> s

\* ------------------------------------------------------------ construction
\* The `limit` arguments tried: None, small ones, and ones around the page cap.
Limits ==
    {None} \cup {Num(n) : n \in 0..MaxLimit}
           \cup {Num(PAGE_SIZE + d) : d \in 0..1}

Construct(guild_id, before, user_id, action_type, limit, s) ==
    LET self == __init__(guild_id, before, user_id, action_type, limit) IN
    /\ _kwargs = self._kwargs
    /\ _limit = self._limit
    /\ _buffer = self._buffer
    /\ _front = self._front
    /\ users = self.users
    /\ webhooks = self.webhooks
    /\ integrations = self.integrations
    /\ heap = InitHeap
    /\ stub = s
    /\ ctor = [guild_id |-> guild_id, before |-> before, user_id |-> user_id,
               action_type |-> action_type, limit |-> limit]
    /\ yielded = <<>>
    /\ result = <<"none">>
    /\ stopped = FALSE
    /\ nfetch = 0
    /\ lastCall = [fetched |-> FALSE, wasStopped |-> FALSE, buffered |-> 0, budget |-> limit,
                   at |-> 0, popped |-> <<>>]
    /\ lastRequest = [n |-> 0]
    /\ pages = <<>>
    /\ obedient = TRUE
    /\ returned = [users |-> <<>>, webhooks |-> <<>>, integrations |-> <<>>]
    /\ captured = {}

\* No deserializer was called yet, and none is to be.
NotCalled == [op |-> "none", of |-> "none"]

\* The module as imported: its decorators have run, in the order of the source.
Imported ==
    /\ types = Decorate(NotSet, Decorated)
    /\ registrations = Decorated
    /\ decoded = NotCalled

\* An iterator over a request function that may answer anything.
Init ==
    /\ Imported
    /\ \E before \in {None, Str(MaxLog)}, user_id \in {Ellipsis, Str(1)}, limit \in Limits :
        Construct(Str(1), before, user_id, Ellipsis, limit,
                  [kind |-> "any", top |-> MaxFetches * MaxPage, cap |-> MaxFetches])

\* An iterator over a request function that returns pages of scripted sizes and
\* then empty pages; among the scripts are the pages of 100, 100 and 37 entries
\* and the single page of 100 entries.
InitScript ==
    /\ Imported
    /\ \E script \in UNION {[1..k -> 1..MaxPage] : k \in 0..MaxScript}
                   \cup {<<PAGE_SIZE, PAGE_SIZE, 37>>, <<PAGE_SIZE>>},
       limit \in {None, Num(5)} \cup {Num(n) : n \in 0..MaxLimit} :
        Construct(Str(1), None, Ellipsis, Ellipsis, limit,
                  [kind |-> "script", script |-> script, all |-> script, top |-> Sum(script),
                   cap |-> Len(script) + MaxRetry])

\* The elements of a set of numbers, largest first.
RECURSIVE Descending(_)
Descending(S) ==
    IF S = {} THEN <<>>
    ELSE LET m == CHOOSE x \in S : \A y \in S : y <= x
         IN <<m>> \o Descending(S \ {m})

\* An iterator over a finite audit log served newest first, at most `page`
\* entries a request, each request answered with the newest entries older
\* than its cursor.
InitLog ==
    /\ Imported
    /\ \E ids \in SUBSET (1..MaxLog), page \in 1..MaxPage,
       before \in {None} \cup {Str(b) : b \in 1..(MaxLog + 1)},
       limit \in {None} \cup {Num(n) : n \in 0..MaxLimit} :
        Construct(Str(1), before, Ellipsis, Ellipsis, limit,
                  [kind |-> "log", log |-> Descending(ids), page |-> page,
                   cap |-> Cardinality(ids) + MaxRetry])

\* An iterator over a request function that returns users, webhooks and
\* integrations with its pages.
InitMaps ==
    /\ Imported
    /\ \E limit \in {None, Num(PAGE_SIZE)} :
        Construct(Str(1), None, Ellipsis, Ellipsis, limit,
                  [kind |-> "maps", top |-> MaxMapFetches, cap |-> MaxMapFetches])

\* ---------------------------------------------------------------- actions
\* The raw lists of one kind returned so far, with payload's appended.
Returned(payload, key) ==
    IF key \in DOMAIN payload THEN returned[key] \o payload[key] ELSE returned[key]

\* One `await iterator.__anext__()`, with the request it may make.
Anext ==
    LET self == Self
        fill == NeedsFill(self)
        args == RequestArgs(self)
    IN /\ fill => nfetch < stub.cap
       /\ \E resp \in (IF fill THEN Responses(stub, args, nfetch) ELSE {Raise}) :
          \E out \in {__anext__(self, heap, resp)} :
            LET got == fill /\ resp.ok
                n == IF got THEN Len(resp.payload.audit_log_entries) ELSE 0
            IN /\ _kwargs' = out.self._kwargs
               /\ _limit' = out.self._limit
               /\ _buffer' = out.self._buffer
               /\ _front' = out.self._front
               /\ users' = out.self.users
               /\ webhooks' = out.self.webhooks
               /\ integrations' = out.self.integrations
               /\ heap' = out.heap
               /\ stub' = IF fill THEN Served(stub, resp) ELSE stub
               /\ yielded' = IF out.result[1] = "entry"
                             THEN Append(yielded, out.result[2]) ELSE yielded
               /\ result' = out.result
               /\ stopped' = (stopped \/ out.result = <<"StopAsyncIteration">>)
               /\ nfetch' = IF fill THEN nfetch + 1 ELSE nfetch
               /\ lastCall' = [fetched |-> fill, wasStopped |-> stopped,
                               buffered |-> Len(_buffer), budget |-> _limit,
                               at |-> Len(yielded), popped |-> out.popped]
               /\ lastRequest' =
                    IF fill
                    THEN [n |-> nfetch + 1, args |-> args, at |-> Len(yielded),
                          budget |-> _limit, trusted |-> obedient, ok |-> resp.ok,
                          page |-> IF got
                                   THEN [i \in 1..n |->
                                            EntryId(resp.payload.audit_log_entries[i])]
                                   ELSE <<>>,
                          raw |-> IF got THEN resp.payload.audit_log_entries ELSE <<>>]
                    ELSE lastRequest
               /\ pages' = IF got THEN Append(pages, n) ELSE pages
               /\ obedient' = (obedient /\ (got => n <= args.limit[2]))
               /\ returned' = IF got
                              THEN [k \in DOMAIN returned |-> Returned(resp.payload, k)]
                              ELSE returned
               /\ UNCHANGED <<ctor, captured, types, registrations, decoded>>

\* The consumer reads iterator.users, .webhooks and .integrations and keeps the
\* references, noting what each mapping holds.
Capture ==
    LET snap == {[ref |-> r, contents |-> heap[r]] : r \in {users, webhooks, integrations}}
    IN /\ ~(snap \subseteq captured)
       /\ captured' = captured \cup snap
       /\ UNCHANGED <<_kwargs, _limit, _buffer, _front, users, webhooks, integrations,
                      heap, stub, ctor, yielded, result, stopped, nfetch, lastCall,
                      lastRequest, pages, obedient, returned, types, registrations,
                      decoded>>

Next == Anext \/ Capture

Spec == Init /\ [][Next]_vars
SpecScript == InitScript /\ [][Next]_vars
SpecLog == InitLog /\ [][Next]_vars
SpecMaps == InitMaps /\ [][Next]_vars

\* ------------------------------------------------- the deserializers, called
\* The iterator, which the calls below leave alone.
iterator ==
    <<_kwargs, _limit, _buffer, _front, users, webhooks, integrations, heap, stub, ctor,
      yielded, result, stopped, nfetch, lastCall, lastRequest, pages, obedient, returned,
      captured>>

\* An iterator that is constructed and never driven.
Idle ==
    Construct(Str(1), None, Ellipsis, Ellipsis, None, [kind |-> "any", top |-> 0, cap |-> 0])

\* Marks a key that a payload is to lack.
Absent == <<"absent">>

\* The raw mapping of the fields fs, without those marked Absent.
Payload(fs) == [k \in {f \in DOMAIN fs : fs[f] # Absent} |-> fs[k]]

\* The converter the table gives a raw key, "" when it gives none.
ConverterOf(key) ==
    IF key[2] \in DOMAIN AuditLogChangeKey
          /\ AuditLogChangeKey[key[2]] \in DOMAIN AUDIT_LOG_ENTRY_CONVERTERS
    THEN AUDIT_LOG_ENTRY_CONVERTERS[AuditLogChangeKey[key[2]]]
    ELSE ""

\* Raw values of the shape a converter expects; any JSON value for a key without one.
RawValues(value_converter) ==
    CASE value_converter = "Snowflake.deserialize" -> {Str(n) : n \in 1..MaxRaw}
      [] value_converter \in {"{role.id: role}", "{overwrite.id: overwrite}"} ->
           {List(<<>>), List(<<[id |-> Str(1), v |-> 1]>>),
            List(<<[id |-> Str(1), v |-> 1], [id |-> Str(2), v |-> 1]>>)}
      [] value_converter = "bool" -> {Bool(TRUE), Bool(FALSE)}
      [] value_converter = "str" -> {Num(0), Text("role")}
      [] value_converter = "" -> {Num(0), Text("x"), Bool(FALSE), List(<<>>)}
      [] OTHER -> {Num(n) : n \in 0..MaxRaw}

\* The raw keys of changes: every known one, and two no member has as its value.
ChangeKeys == {Text(k) : k \in DOMAIN AuditLogChangeKey} \cup {Text("shiny"), Text("MAX_USES")}

\* Raw changes: each key with old and new values that are raw, null or absent;
\* and a change that lacks its key.
ChangePayloads ==
    UNION {LET vs == RawValues(ConverterOf(k)) \cup {None, Absent}
           IN {Payload([key |-> k, new_value |-> n, old_value |-> o]) : n \in vs, o \in vs} :
           k \in ChangeKeys}
    \cup {[new_value |-> Num(1)]}

\* Raw action types: every known one, two unknown numbers and a string.
ActionTypes == {Num(n) : n \in AuditLogEventType \cup {0, 99}} \cup {Str(74)}

\* Raw options of the shapes the platform documents, an empty one and an unknown one.
OptionPayloads ==
    {Obj([channel_id |-> Str(3), message_id |-> Str(4)]),
     Obj([id |-> Str(5), type |-> Text("role"), role_name |-> Text("admin")]),
     Obj([id |-> Str(5), type |-> Text("member")]),
     Obj([delete_member_days |-> Str(7), members_removed |-> Num(2)]),
     Obj([count |-> Str(2)]),
     Obj([channel_id |-> Str(3), count |-> Str(2)]),
     Obj(<<>>),
     Obj([shiny |-> Num(1)])}

\* Raw lists of changes.
ChangeLists ==
    LET uses == [key |-> Text("max_uses"), new_value |-> Num(0), old_value |-> Num(1)]
        shiny == [key |-> Text("shiny"), new_value |-> Num(0)]
        color == [key |-> Text("color"), old_value |-> Num(MaxRaw)]
    IN {List(<<>>), List(<<uses>>), List(<<uses, shiny>>), List(<<shiny, uses>>),
        List(<<shiny, color, uses>>)}

\* Raw entries.
EntryPayloads ==
    {Payload([id |-> Str(9), user_id |-> Str(1), action_type |-> a, options |-> o,
              changes |-> c, target_id |-> t]) :
        a \in ActionTypes, o \in OptionPayloads \cup {None, Absent},
        c \in ChangeLists \cup {Absent}, t \in {Str(7), Absent}}

\* The action types get_entry_info_entity is asked for: raw and as members.
LookupTypes ==
    ActionTypes \cup {Member("AuditLogEventType", n) : n \in AuditLogEventType}

\* The imported module, with a payload that one of its functions is to be called with.
InitDecode ==
    /\ Idle
    /\ types = Decorate(NotSet, Decorated)
    /\ registrations = Decorated
    /\ \/ \E payload \in ChangePayloads :
             decoded = [op |-> "none", of |-> "AuditLogChange.deserialize", payload |-> payload]
       \/ \E payload \in EntryPayloads :
             decoded = [op |-> "none", of |-> "AuditLogEntry.deserialize", payload |-> payload]
       \/ \E type_ \in LookupTypes :
             decoded = [op |-> "none", of |-> "get_entry_info_entity", payload |-> type_]

\* The call `of` that is to be made has not been made.
Pending(of) == decoded.op = "none" /\ decoded.of = of

\* get_entry_info_entity(type_)
GetEntryInfoEntity ==
    /\ Pending("get_entry_info_entity")
    /\ decoded' = [op |-> decoded.of, payload |-> decoded.payload,
                   out |-> get_entry_info_entity(decoded.payload)]
    /\ UNCHANGED <<iterator, types, registrations>>

\* AuditLogChange.deserialize(payload)
DeserializeChange ==
    /\ Pending("AuditLogChange.deserialize")
    /\ decoded' = [op |-> decoded.of, payload |-> decoded.payload,
                   out |-> AuditLogChangeDeserialize(decoded.payload)]
    /\ UNCHANGED <<iterator, types, registrations>>

\* AuditLogEntry.deserialize(payload)
DeserializeEntry ==
    /\ Pending("AuditLogEntry.deserialize")
    /\ decoded' = [op |-> decoded.of, payload |-> decoded.payload,
                   out |-> AuditLogEntryDeserialize(decoded.payload)]
    /\ UNCHANGED <<iterator, types, registrations>>

NextDecode == GetEntryInfoEntity \/ DeserializeChange \/ DeserializeEntry

SpecDecode == InitDecode /\ [][NextDecode]_vars

\* --------------------------------------------------- the registry, filled
\* The action types the decorator is applied with: members, and the raw
\* number of one of them.
RegisterTypes ==
    {Member("AuditLogEventType", 72), Member("AuditLogEventType", 73), Num(72)}

\* The additional types it is applied with.
RegisterAdditionalTypes ==
    {<<>>} \cup {<<t>> : t \in RegisterTypes}
           \cup {<<Member("AuditLogEventType", 73), Num(72)>>}

\* The classes that are decorated.
RegisterClasses == {"MessageBulkDeleteEntryInfo", "MessageDeleteEntryInfo"}

\* The module before its first decorator ran.
InitRegistry ==
    /\ Idle
    /\ types = NotSet
    /\ registrations = <<>>
    /\ decoded = NotCalled

\* @register_audit_log_entry_info(type_, *additional_types) on the class cls
Register ==
    /\ Len(registrations) < MaxRegistrations
    /\ \E type_ \in RegisterTypes, additional_types \in RegisterAdditionalTypes,
          cls \in RegisterClasses :
          /\ types' = register_audit_log_entry_info(types, type_, additional_types, cls)
          /\ registrations' = Append(registrations,
                                     [type_ |-> type_, additional_types |-> additional_types,
                                      cls |-> cls])
    /\ UNCHANGED <<iterator, decoded>>

NextRegistry == Register

SpecRegistry == InitRegistry /\ [][NextRegistry]_vars

\* ---------------------------------------------------------------- outcomes
Stop == <<"StopAsyncIteration">>
Called == result # <<"none">>
Requested == lastRequest.n > 0

\* The entries yielded since the latest request was made.
SincePage == SubSeq(yielded, lastRequest.at + 1, Len(yielded))

\* ------------------------------------------------------------------ claims
\* C1: an iterator constructed with limit = n never yields more than n entries
\* in total, as long as no fetch returned more entries than the page size it
\* was asked for.
C1_YieldedWithinLimit ==
    (ctor.limit # None /\ obedient) => Len(yielded) <= ctor.limit[2]

\* C1 witness: a limit of MaxLimit used up by two obedient fetches or more.
C1_Witness ==
    /\ ctor.limit = Num(MaxLimit)
    /\ obedient
    /\ nfetch >= 2
    /\ Len(yielded) = MaxLimit

\* C2 (as claimed): with limit=5 and a first page of 100 entries the iterator
\* yields exactly 5 entries: never a sixth, and exhaustion only after the fifth.
C2_LimitFiveOfHundred ==
    (ctor.limit = Num(5) /\ pages # <<>> /\ pages[1] = PAGE_SIZE)
        => /\ Len(yielded) <= 5
           /\ result = Stop => Len(yielded) = 5

\* C3 (as claimed): a call made after StopAsyncIteration was raised raises it
\* again and does not call the request function.
C3_ExhaustionPermanent ==
    lastCall.wasStopped => (result = Stop /\ ~lastCall.fetched)

\* C4: a call that finds the budget at 0 and the buffer empty raises
\* StopAsyncIteration without calling the request function, and an iterator
\* constructed with limit=0 never calls it.
C4_ZeroBudgetNoFetch ==
    /\ (Called /\ lastCall.budget = Num(0) /\ lastCall.buffered = 0)
          => (result = Stop /\ ~lastCall.fetched)
    /\ ctor.limit = Num(0) => nfetch = 0

\* C4 witness: a budget of MaxLimit brought to 0 by fetching, all entries
\* yielded, and the next call stopping without a fetch.
C4_Witness ==
    /\ ctor.limit = Num(MaxLimit)
    /\ Len(yielded) = MaxLimit
    /\ lastCall.budget = Num(0)
    /\ lastCall.buffered = 0
    /\ result = Stop
    /\ ~lastCall.fetched

\* C5: with limit=None and pages of sizes s1..sk followed by empty pages, an
\* entry is yielded only within the first k fetches, StopAsyncIteration is
\* raised only once all s1+...+sk entries were yielded, its first raise comes
\* with fetch k+1, and a call made when all were yielded raises it.
C5_ScriptedPages ==
    ctor.limit = None =>
        /\ result \in {<<"none">>, Stop} \cup {<<"entry", id>> : id \in 1..Sum(stub.all)}
        /\ result[1] = "entry" => nfetch <= Len(stub.all)
        /\ result = Stop => Len(yielded) = Sum(stub.all)
        /\ (result = Stop /\ ~lastCall.wasStopped) => nfetch = Len(stub.all) + 1
        /\ Len(yielded) <= Sum(stub.all)

\* C5 witness: pages of 100, 100, 37 and 0 entries: 237 entries, 4 fetches, then the stop.
C5_Witness ==
    /\ ctor.limit = None
    /\ stub.all = <<PAGE_SIZE, PAGE_SIZE, 37>>
    /\ result = Stop
    /\ ~lastCall.wasStopped
    /\ Len(yielded) = 237
    /\ nfetch = 4

\* C6 (as claimed): the entries of a page returned as [e1..en] are yielded
\* oldest first: en, ..., e1.
C6_OldestFirstWithinPage ==
    (Requested /\ lastRequest.ok) =>
        SincePage = SubSeq(Reverse(lastRequest.page), 1, Len(SincePage))

\* C6 (amended): the entries of a page returned as [e1..en] are yielded in the
\* order the page was returned: e1 (newest) first, en (oldest) last, and what
\* is left of the page is what the buffer holds.
C6_NewestFirstWithinPage ==
    (Requested /\ lastRequest.ok) =>
        /\ Len(SincePage) + Len(_buffer) = Len(lastRequest.page)
        /\ SincePage = SubSeq(lastRequest.page, 1, Len(SincePage))

\* C6 witness: a page of two or more entries yielded to its end.
C6_Witness ==
    /\ Requested
    /\ lastRequest.ok
    /\ Len(lastRequest.page) >= 2
    /\ lastRequest.page[1] > lastRequest.page[2]
    /\ SincePage = lastRequest.page

\* The ids an unlimited iterator over the served log has to yield, newest first.
Expected == Older(stub.log, BeforeArg(ctor.before))

\* C7: over a log served newest first an unlimited iterator yields the entries
\* older than `before` (all of them without `before`) newest to oldest, none
\* skipped or repeated: what was yielded is always the first part of that list,
\* and all of it by the time StopAsyncIteration is raised.
C7_WholeLogNewestToOldest ==
    ctor.limit = None =>
        /\ Len(yielded) <= Len(Expected)
        /\ yielded = SubSeq(Expected, 1, Len(yielded))
        /\ result = Stop => yielded = Expected
        /\ (Called /\ result # Stop) => result = <<"entry", yielded[Len(yielded)]>>

\* C7 witness: a log with entries both sides of `before`, yielded over several
\* pages up to the stop.
C7_Witness ==
    /\ ctor.limit = None
    /\ ctor.before # None
    /\ Len(Expected) >= 3
    /\ Len(Expected) < Len(stub.log)
    /\ stub.page < Len(Expected)
    /\ result = Stop
    /\ yielded = Expected

\* C8 (as claimed): the first fetch passes `before` (or no cursor), every later
\* fetch the id of the entry most recently yielded; guild, user filter and
\* action type filter are the constructor's on every fetch.
C8_LaterFetchesPassYieldedId ==
    Requested =>
        /\ lastRequest.n = 1 => lastRequest.args.before = BeforeArg(ctor.before)
        /\ lastRequest.n > 1 =>
              /\ lastRequest.at > 0
              /\ lastRequest.args.before = Str(yielded[lastRequest.at])
        /\ lastRequest.args.guild_id = ctor.guild_id
        /\ lastRequest.args.user_id = ctor.user_id
        /\ lastRequest.args.action_type = ctor.action_type

\* C8 (amended): every fetch passes as cursor the id of the entry most
\* recently yielded, and `before` (or no cursor) while none has been yielded;
\* guild, user filter and action type filter are the constructor's on every fetch.
C8_FetchPassesFront ==
    Requested =>
        /\ lastRequest.args.before =
              IF lastRequest.at = 0 THEN BeforeArg(ctor.before)
              ELSE Str(yielded[lastRequest.at])
        /\ lastRequest.args.guild_id = ctor.guild_id
        /\ lastRequest.args.user_id = ctor.user_id
        /\ lastRequest.args.action_type = ctor.action_type

\* C8 witness: a third fetch, made after entries were yielded, by an iterator
\* constructed with `before` and a user filter.
C8_Witness ==
    /\ lastRequest.n = 3
    /\ lastRequest.at >= 2
    /\ ctor.before # None
    /\ ctor.user_id # Ellipsis
    /\ lastRequest.args.before = Str(yielded[lastRequest.at])

\* C9: a fetch asks for 100 entries when the budget is unbounded or above 100
\* and for the budget otherwise; as long as no earlier fetch returned more than
\* it was asked for, it asks for between 1 and 100.
C9_PageSize ==
    Requested =>
        /\ lastRequest.args.limit =
              IF lastRequest.budget = None \/ lastRequest.budget[2] > PAGE_SIZE
              THEN Num(PAGE_SIZE) ELSE lastRequest.budget
        /\ lastRequest.trusted =>
              (1 <= lastRequest.args.limit[2] /\ lastRequest.args.limit[2] <= PAGE_SIZE)

\* C9 witness: a budget of 101 asked 100 of first and, later, a budget below 100 asked in full.
C9_Witness ==
    /\ ctor.limit = Num(PAGE_SIZE + 1)
    /\ lastRequest.n >= 2
    /\ lastRequest.trusted
    /\ lastRequest.budget[2] < PAGE_SIZE
    /\ lastRequest.args.limit = lastRequest.budget

\* The mapping of a kind as the iterator publishes it.
Mapping(kind) ==
    heap[CASE kind = "users" -> users
           [] kind = "webhooks" -> webhooks
           [] kind = "integrations" -> integrations]

\* C10: users, webhooks and integrations each hold, keyed by id, the objects
\* all fetches so far returned (the latest object of an id), and a mapping the
\* consumer took a reference to still holds what it held then.
C10_UnionCopyOnWrite ==
    /\ \A kind \in DOMAIN returned : Mapping(kind) = DictOf(returned[kind])
    /\ \A c \in captured : heap[c.ref] = c.contents

\* C10 witness: references taken after a first fetch that returned objects,
\* then a second fetch that added to and replaced in all three mappings.
C10_Witness ==
    /\ nfetch = 2
    /\ \A kind \in DOMAIN returned :
          /\ DOMAIN Mapping(kind) = {1, 2}
          /\ Mapping(kind)[1].v = 2
          /\ \E c \in captured : c.contents # <<>> /\ DOMAIN c.contents = {1}
                                 /\ c.contents # Mapping(kind)

\* C14: inside __anext__ a popped entry that lacks id, user_id or action_type
\* makes the call end with the KeyError of AuditLogEntry.deserialize, not with
\* StopAsyncIteration, and no entry is yielded; a KeyError comes from nothing else.
C14_MissingFieldIsKeyError ==
    Called =>
        /\ (lastCall.popped # <<>>
              /\ \E i \in DOMAIN RequiredKeys : RequiredKeys[i] \notin DOMAIN lastCall.popped[1])
             <=> result = <<"KeyError">>
        /\ result = <<"KeyError">> => Len(yielded) = lastCall.at

\* C14 witness: a call that fetched a page and popped an entry without id.
C14_Witness ==
    /\ result = <<"KeyError">>
    /\ lastCall.fetched
    /\ "id" \notin DOMAIN lastCall.popped[1]
    /\ Len(yielded) >= 1

\* The iterator's own fields and the dicts they refer to.
fields == <<_kwargs, _limit, _buffer, _front, users, webhooks, integrations, heap>>

\* C15: a call whose request raises ends with that error after the one
\* request, leaves cursor, budget, buffer and mappings as they were, and the
\* next call would fetch with the same arguments.
C15_RequestFailureLeavesState ==
    [][(lastRequest'.n # lastRequest.n /\ ~lastRequest'.ok) =>
          /\ result' = <<"RequestError">>
          /\ nfetch' = nfetch + 1
          /\ UNCHANGED fields
          /\ NeedsFill(Self)'
          /\ RequestArgs(Self)' = lastRequest'.args]_vars

\* C15 witness: a request that raised after entries were yielded from a bounded budget.
C15_Witness ==
    /\ result = <<"RequestError">>
    /\ lastRequest.n >= 2
    /\ ~lastRequest.ok
    /\ Len(yielded) >= 1
    /\ _limit \notin {None, ctor.limit}
    /\ RequestArgs(Self) = lastRequest.args

\* C17: the budget of a bounded iterator is its limit less the entries all
\* fetches returned, a step without a fetch leaves the budget as it is, and
\* the budget of an unlimited iterator stays None.
C17_BudgetAccounting ==
    [][/\ ctor.limit = None => _limit' = None
       /\ ctor.limit # None => _limit' = Num(ctor.limit[2] - Sum(pages'))
       /\ nfetch' = nfetch => _limit' = _limit]_vars

\* C17 witness: a budget of 101 after two pages, with an entry just yielded
\* from the buffer without a fetch.
C17_Witness ==
    /\ ctor.limit = Num(PAGE_SIZE + 1)
    /\ Len(pages) >= 2
    /\ Sum(pages) >= 3
    /\ _limit = Num(PAGE_SIZE + 1 - Sum(pages))
    /\ result[1] = "entry"
    /\ ~lastCall.fetched

\* C20: a call fetches only when it finds the buffer empty, a call that finds
\* entries in the buffer pops one without fetching, and the buffer holds
\* nothing but the entries of the latest page that are still to come.
C20_FetchOnlyOnEmptyBuffer ==
    /\ (Called /\ lastCall.fetched) => lastCall.buffered = 0
    /\ (Called /\ lastCall.buffered > 0) => (~lastCall.fetched /\ lastCall.popped # <<>>)
    /\ _buffer # <<>> =>
          /\ Requested
          /\ lastRequest.ok
          /\ Len(_buffer) < Len(lastRequest.raw)
          /\ _buffer = Reverse(SubSeq(lastRequest.raw,
                                      Len(lastRequest.raw) - Len(_buffer) + 1,
                                      Len(lastRequest.raw)))

\* C20 witness: after a second page, a call served from the buffer.
C20_Witness ==
    /\ nfetch >= 2
    /\ lastCall.buffered > 0
    /\ ~lastCall.fetched
    /\ result[1] = "entry"
    /\ lastCall.popped = <<lastRequest.raw[Len(lastRequest.raw)]>>

\* ------------------------------------------------------------------- C11
\* The entry info class the documentation gives an action type.
Variant(type_) ==
    IF type_[1] \notin {"int", "AuditLogEventType"} THEN "UnrecognisedAuditLogEntryInfo"
    ELSE CASE type_[2] \in {13, 14, 15} -> "ChannelOverwriteEntryInfo"
           [] type_[2] = 21 -> "MemberPruneEntryInfo"
           [] type_[2] = 26 -> "MemberMoveEntryInfo"
           [] type_[2] = 27 -> "MemberDisconnectEntryInfo"
           [] type_[2] = 72 -> "MessageDeleteEntryInfo"
           [] type_[2] = 73 -> "MessageBulkDeleteEntryInfo"
           [] type_[2] \in {74, 75} -> "MessagePinEntryInfo"
           [] OTHER -> "UnrecognisedAuditLogEntryInfo"

\* The latest call was `of` and has returned.
Did(of) == decoded.op = of

\* The payload of the latest call carries non-null options.
WithOptions == "options" \in DOMAIN decoded.payload /\ decoded.payload.options # None

\* C11: in the imported module get_entry_info_entity returns, for every action
\* type (raw or a member), the class the table above gives it and the fallback
\* for any other discriminator; an entry's options are decoded by that class,
\* and the fallback keeps every raw key of the options with its raw value.
C11_VariantByActionType ==
    /\ \A type_ \in LookupTypes : get_entry_info_entity(type_) = Variant(type_)
    /\ Did("get_entry_info_entity") => decoded.out = Variant(decoded.payload)
    /\ (Did("AuditLogEntry.deserialize") /\ decoded.out.ok /\ WithOptions) =>
          LET options == decoded.out.entry.options
          IN /\ options[2] = Variant(decoded.payload.action_type)
             /\ options[2] = "UnrecognisedAuditLogEntryInfo"
                   => options[3] = decoded.payload.options[2]

\* A message pin entry (action type 74) with channel_id and message_id in its
\* options was decoded, its options as a MessagePinEntryInfo.
C11_Witness ==
    /\ Did("AuditLogEntry.deserialize")
    /\ decoded.payload.action_type = Num(74)
    /\ WithOptions
    /\ DOMAIN decoded.payload.options[2] = {"channel_id", "message_id"}
    /\ decoded.out.ok
    /\ decoded.out.entry.options =
          EntryInfo("MessagePinEntryInfo", [channel_id |-> Snowflake(3), message_id |-> Snowflake(4)])

\* ------------------------------------------------------------------- C12
\* The raw value of a field of the latest payload, None when the field is absent.
Raw(f) == IF f \in DOMAIN decoded.payload THEN decoded.payload[f] ELSE None

\* C12: AuditLogChange.deserialize, for every key, leaves a null or absent
\* old_value or new_value None and never calls the converter with None; a value
\* that is not null is converted by the key's converter whatever the other
\* value is.
C12_NullStaysNull ==
    (Did("AuditLogChange.deserialize") /\ decoded.out.ok) =>
        LET value_converter == ConverterOf(decoded.payload.key)
            nonnull == {f \in {"new_value", "old_value"} : Raw(f) # None}
        IN /\ \A i \in DOMAIN decoded.out.calls : decoded.out.calls[i] # None
           /\ \A f \in {"new_value", "old_value"} \ nonnull : decoded.out.change[f] = None
           /\ value_converter # "" =>
                 /\ \A f \in nonnull : decoded.out.change[f] = Apply(value_converter, Raw(f))
                 /\ Len(decoded.out.calls) = Cardinality(nonnull)

\* A change of afk_timeout from 0 to null was decoded: the old value was
\* converted, the new one was not.
C12_Witness ==
    /\ Did("AuditLogChange.deserialize")
    /\ decoded.payload = [key |-> Text("afk_timeout"), new_value |-> None, old_value |-> Num(0)]
    /\ decoded.out.ok
    /\ decoded.out.change.new_value = None
    /\ decoded.out.change.old_value = Timedelta(0)
    /\ decoded.out.calls = <<Num(0)>>

\* ------------------------------------------------------------------- C13
\* The raw action type of the latest payload is the value of no member.
UnknownActionType ==
    ~(decoded.payload.action_type[1] = "int"
        /\ decoded.payload.action_type[2] \in AuditLogEventType)

\* C13: a change whose key is not a known one is decoded, with the raw string
\* as its key and the raw old and new values; an entry whose action type is not
\* a known one is decoded, with the raw value as its action type and its
\* options (if any) held by the fallback class.
C13_UnrecognisedDegradesGracefully ==
    /\ (Did("AuditLogChange.deserialize") /\ "key" \in DOMAIN decoded.payload
           /\ decoded.payload.key[2] \notin DOMAIN AuditLogChangeKey) =>
          /\ decoded.out.ok
          /\ decoded.out.change =
                [key |-> decoded.payload.key, new_value |-> Raw("new_value"),
                 old_value |-> Raw("old_value")]
          /\ decoded.out.calls = <<>>
    /\ (Did("AuditLogEntry.deserialize") /\ UnknownActionType) =>
          /\ decoded.out.ok
          /\ decoded.out.entry.action_type = decoded.payload.action_type
          /\ WithOptions =>
                decoded.out.entry.options =
                    EntryInfo("UnrecognisedAuditLogEntryInfo", decoded.payload.options[2])
          /\ \A i \in DOMAIN decoded.out.entry.changes :
                LET raw == decoded.payload.changes[2][i]
                IN raw.key[2] \notin DOMAIN AuditLogChangeKey =>
                     decoded.out.entry.changes[i] =
                        [key |-> raw.key, new_value |-> Get(raw, "new_value"),
                         old_value |-> Get(raw, "old_value")]

\* An entry of the unknown action type 99 was decoded, with options of an
\* unknown shape and a first change of an unknown key.
C13_Witness ==
    /\ Did("AuditLogEntry.deserialize")
    /\ decoded.payload.action_type = Num(99)
    /\ WithOptions
    /\ decoded.payload.options = Obj([shiny |-> Num(1)])
    /\ decoded.out.ok
    /\ decoded.out.entry.action_type = Num(99)
    /\ decoded.out.entry.options[2] = "UnrecognisedAuditLogEntryInfo"
    /\ Len(decoded.out.entry.changes) = 2
    /\ decoded.out.entry.changes[1] =
          [key |-> Text("shiny"), new_value |-> Num(0), old_value |-> None]

\* ------------------------------------------------------------------- C16
\* The fields of the latest payload that hold a raw number.
Numbers == {f \in {"new_value", "old_value"} : Raw(f)[1] = "int"}

\* C16: in a change of max_uses a raw 0 becomes float("inf") and a positive n
\* the int n; in a change of max_age a raw 0 becomes None and a positive s the
\* timedelta of s seconds.
C16_ZeroConventions ==
    (Did("AuditLogChange.deserialize") /\ "key" \in DOMAIN decoded.payload) =>
        /\ decoded.payload.key = Text("max_uses") =>
              /\ decoded.out.ok
              /\ \A f \in Numbers :
                    /\ Raw(f)[2] = 0 =>
                          decoded.out.change[f] = Inf /\ decoded.out.change[f] # Num(0)
                    /\ Raw(f)[2] > 0 => decoded.out.change[f] = Num(Raw(f)[2])
        /\ decoded.payload.key = Text("max_age") =>
              /\ decoded.out.ok
              /\ \A f \in Numbers :
                    /\ Raw(f)[2] = 0 => decoded.out.change[f] = None
                    /\ Raw(f)[2] > 0 => decoded.out.change[f] = Timedelta(Raw(f)[2])

\* A change of max_uses from a positive number to 0 was decoded.
C16_Witness ==
    /\ Did("AuditLogChange.deserialize")
    /\ decoded.payload =
          [key |-> Text("max_uses"), new_value |-> Num(0), old_value |-> Num(MaxRaw)]
    /\ decoded.out.change.new_value = Inf
    /\ decoded.out.change.old_value = Num(MaxRaw)

\* ------------------------------------------------------------------- C18
\* The numbers of the action types a registration was given.
Given(r) == {r.type_[2]} \cup {r.additional_types[i][2] : i \in DOMAIN r.additional_types}

\* The registrations so far that were given the action type number n.
Naming(n) == {i \in DOMAIN registrations : n \in Given(registrations[i])}

\* C18: whatever decorators were applied so far, get_entry_info_entity returns
\* for an action type (raw or a member) the class of the latest registration
\* that named it, as its first or as an additional type, and the fallback
\* exactly for the action types no registration named; before any
\* registration that is every action type.
C18_RegistryOnlyGrows ==
    \A n \in {72, 73, 74} :
        \A type_ \in {Num(n), Member("AuditLogEventType", n)} :
            /\ Naming(n) = {} => get_entry_info_entity(type_) = "UnrecognisedAuditLogEntryInfo"
            /\ Naming(n) # {} =>
                  get_entry_info_entity(type_) =
                      registrations[CHOOSE i \in Naming(n) : \A j \in Naming(n) : j <= i].cls

\* Two classes were registered in turn, the first for 72 and (as an additional
\* type) 73, the second for 72 only: 72 now gives the second class and 73
\* still the first.
C18_Witness ==
    /\ Len(registrations) = 2
    /\ registrations[1].cls # registrations[2].cls
    /\ registrations[1].type_[2] = 72
    /\ registrations[1].additional_types = <<Member("AuditLogEventType", 73)>>
    /\ Given(registrations[2]) = {72}
    /\ get_entry_info_entity(Num(72)) = registrations[2].cls
    /\ get_entry_info_entity(Num(73)) = registrations[1].cls
    /\ get_entry_info_entity(Num(74)) = "UnrecognisedAuditLogEntryInfo"

\* ------------------------------------------------------------------- C19
\* C19: a decoded entry has options None exactly when its payload has no
\* options or null ones, and else the options as the class registered for its
\* resolved action type decodes them; it has no changes when the payload has no
\* changes field, and else the payload's changes decoded one by one, in order.
C19_OptionsAndChanges ==
    (Did("AuditLogEntry.deserialize") /\ decoded.out.ok) =>
        LET entry == decoded.out.entry
            raw_changes == decoded.payload.changes[2]
        IN /\ entry.options = None <=> ~WithOptions
           /\ WithOptions =>
                 /\ entry.options[1] = "entry info"
                 /\ entry.options[2] = Variant(entry.action_type)
                 /\ entry.options =
                       EntryInfoDeserialize(Variant(entry.action_type),
                                            decoded.payload.options[2]).value
           /\ "changes" \notin DOMAIN decoded.payload => entry.changes = <<>>
           /\ "changes" \in DOMAIN decoded.payload =>
                 /\ Len(entry.changes) = Len(raw_changes)
                 /\ \A i \in DOMAIN raw_changes :
                       entry.changes[i] = AuditLogChangeDeserialize(raw_changes[i]).change

\* A message delete entry (action type 72) with options and three changes of
\* different keys was decoded.
C19_Witness ==
    /\ Did("AuditLogEntry.deserialize")
    /\ decoded.payload.action_type = Num(72)
    /\ WithOptions
    /\ "changes" \in DOMAIN decoded.payload
    /\ decoded.out.ok
    /\ decoded.out.entry.options =
          EntryInfo("MessageDeleteEntryInfo", [count |-> Num(2), channel_id |-> Snowflake(3)])
    /\ Len(decoded.out.entry.changes) = 3
    /\ decoded.out.entry.changes[1].key = Text("shiny")
    /\ decoded.out.entry.changes[2].key = Member("AuditLogChangeKey", "COLOR")
    /\ decoded.out.entry.changes[3] =
          [key |-> Member("AuditLogChangeKey", "MAX_USES"), new_value |-> Inf,
           old_value |-> Num(1)]
====
